---- MODULE Spec2Model ----
(***************************************************************************)
(* Capture-session lifecycle of qcam's MainWindow (src/qcam/main_window.cpp)*)
(* as a state machine.  Every event-loop handler (constructor, toolbar     *)
(* start/stop, camera switch, request completion, quit) is one atomic      *)
(* action: the application runs on a single cooperative event loop, so     *)
(* handlers never interleave.                                              *)
(*                                                                         *)
(* The handlers are written as operators from a state record to a state    *)
(* record, because setCamera() and the constructor call stopCapture() and  *)
(* startCapture() in sequence.  The libcamera Camera, Signal and           *)
(* FrameBufferAllocator classes are collaborators whose code is not part   *)
(* of the two source files; their state (acquired, streaming, queued,      *)
(* subscribers, openFds) follows the specification's Device Collaborator.  *)
(* Every return value of a collaborator call is an input of the action.    *)
(*                                                                         *)
(* Left out: the title timer's slot updateTitle() with previousFrames_ and *)
(* frameRateInterval_ (it only reads framesCaptured_), the stream size     *)
(* options, and the value mmap() returns (the code never tests it, so the  *)
(* table entry stands for whatever pointer was stored).                    *)
(***************************************************************************)
EXTENDS Integers, Sequences, FiniteSets, TLC

(* ------------------------------ bounds --------------------------------- *)
NumCameras == 2
MaxFd == 2
MaxBuffers == 2
MaxPlanes == 2
MaxTimestamp == 1

Cameras == 1..NumCameras
FdSet == 1..MaxFd
NoCamera == 0
NoName == -1

\* The plane count of a buffer follows from the pixel format of its camera:
\* the first camera delivers a packed format, the others a planar one.
PlanesOf(c) == IF c = 1 THEN 1 ELSE MaxPlanes

VARIABLES
  pc,              \* "ctor" before the constructor body, "running" in the event loop, then "quitting", "closed"
  camera_,         \* MainWindow::camera_ (NoCamera = null shared_ptr)
  allocator_,      \* MainWindow::allocator_ : [st, bufs]
  isCapturing_,    \* MainWindow::isCapturing_
  mappedBuffers_,  \* MainWindow::mappedBuffers_ : fd -> mapped memory
  config_,         \* MainWindow::config_ is non-null
  titleTimer_,     \* MainWindow::titleTimer_ is active
  framesCaptured_, \* MainWindow::framesCaptured_
  lastBufferTime_, \* MainWindow::lastBufferTime_
  acquired,        \* per camera: "free", "us" (this session) or "other"
  streaming,       \* per camera: the device has been started and not stopped
  queued,          \* per camera: requests queued at the device, in submission order
  subscribers,     \* per camera: number of connections of requestComplete to requestCompleted
  openFds,         \* descriptors of the buffers of every allocator not yet deleted
  hist,            \* since the last statistics reset: frames handled, whether a resubmission failed, resubmissions until then
  last             \* the handler that ran last, its return value and what it did

vars == <<pc, camera_, allocator_, isCapturing_, mappedBuffers_, config_,
          titleTimer_, framesCaptured_, lastBufferTime_,
          acquired, streaming, queued, subscribers, openFds, hist, last>>

(* ------------------------------ helpers -------------------------------- *)
Min(S) == CHOOSE x \in S : \A y \in S : x <= y

RECURSIVE Lowest(_, _)
Lowest(S, n) ==
  IF n = 0 \/ S = {} THEN {} ELSE {Min(S)} \cup Lowest(S \ {Min(S)}, n - 1)

RECURSIVE SortedSeq(_)
SortedSeq(S) ==
  IF S = {} THEN <<>> ELSE <<Min(S)>> \o SortedSeq(S \ {Min(S)})

EmptyTable == [fd \in {} |-> "mem"]

Put(t, fd, mem) == [x \in (DOMAIN t) \cup {fd} |-> IF x = fd THEN mem ELSE t[x]]

NullAllocator == [st |-> "null", bufs |-> {}]

NoHist == [ok |-> 0, resub |-> 0, failed |-> FALSE]

\* What one handler run did; reset when a handler is entered.
NoEv == [unmapped |-> 0, released |-> 0, queuedNow |-> 0, capAtQueue |-> FALSE,
         devStop |-> "none", displayed |-> "none", displayRet |-> "none",
         created |-> 0, fps |-> 0, startRet |-> "none", reported |-> FALSE]

NoLast == [op |-> "none", ret |-> "ok", ev |-> NoEv, status |-> "none",
           calls |-> 0, wasCapturing |-> FALSE, afterStop |-> FALSE,
           deleted |-> FALSE, cam |-> NoCamera]

Ret(s, r) == [s |-> s, ret |-> r]

\* The program and collaborator state as one record, at handler entry.
Cur ==
  [camera_ |-> camera_, allocator_ |-> allocator_, isCapturing_ |-> isCapturing_,
   mappedBuffers_ |-> mappedBuffers_, config_ |-> config_, titleTimer_ |-> titleTimer_,
   framesCaptured_ |-> framesCaptured_,
   lastBufferTime_ |-> lastBufferTime_, acquired |-> acquired, streaming |-> streaming,
   queued |-> queued, subscribers |-> subscribers, openFds |-> openFds,
   hist |-> hist, ev |-> NoEv]

Install(s) ==
  /\ camera_' = s.camera_
  /\ allocator_' = s.allocator_
  /\ isCapturing_' = s.isCapturing_
  /\ mappedBuffers_' = s.mappedBuffers_
  /\ config_' = s.config_
  /\ titleTimer_' = s.titleTimer_
  /\ framesCaptured_' = s.framesCaptured_
  /\ lastBufferTime_' = s.lastBufferTime_
  /\ acquired' = s.acquired
  /\ streaming' = s.streaming
  /\ queued' = s.queued
  /\ subscribers' = s.subscribers
  /\ openFds' = s.openFds
  /\ hist' = s.hist

(* ------------------- the device collaborator --------------------------- *)
\* Camera::stop(): streaming ends and every request still in flight is
\* reported as cancelled, which the completion handler drops on entry
\* (main_window.cpp:344).  A stop that reports a failure (the device is gone)
\* leaves nothing in flight either; only its return value differs.
CameraStop(s) ==
  [s EXCEPT !.streaming[s.camera_] = FALSE, !.queued[s.camera_] = <<>>]

\* Camera::release(): the device returns to the pool; requests in flight are
\* reported as cancelled.
CameraRelease(s) ==
  [s EXCEPT !.acquired[s.camera_] = "free",
            !.streaming[s.camera_] = FALSE,
            !.queued[s.camera_] = <<>>]

\* Camera::start()
CameraStart(s) == [s EXCEPT !.streaming[s.camera_] = TRUE]

\* Camera::queueRequest() accepting the request
CameraQueue(s, req) ==
  [s EXCEPT !.queued[s.camera_] = Append(@, req),
            !.ev.queuedNow = @ + 1]

\* Descriptors no live allocator holds; allocation takes the lowest ones.
FreeFds(s) == FdSet \ s.openFds

\* delete allocator_: its buffers are freed and their descriptors closed.
AllocatorDelete(s) ==
  [s EXCEPT !.allocator_ = [st |-> "deleted", bufs |-> {}],
            !.openFds = @ \ s.allocator_.bufs,
            !.ev.released = @ + 1]

(* ------------------------- MainWindow::stopCapture --------------------- *)
\* munmap() of every table entry, then mappedBuffers_.clear()
UnmapAll(s) ==
  [s EXCEPT !.ev.unmapped = @ + Cardinality(DOMAIN s.mappedBuffers_),
            !.mappedBuffers_ = EmptyTable]

\* lines 321-339
teardown(s, devStopOk) ==
  LET s1 == [CameraStop(s) EXCEPT
               !.ev.devStop = IF devStopOk THEN "ok" ELSE "fail"]
      s2 == UnmapAll(s1)
      s3 == AllocatorDelete(s2)
  IN [s3 EXCEPT !.isCapturing_ = FALSE,
                !.config_ = FALSE,
                !.titleTimer_ = FALSE]

\* stopCapture() without the isCapturing_ test of lines 318-319
stopCapture_unguarded(s, devStopOk) == teardown(s, devStopOk)

\* stopCapture() returning when camera_->stop() fails
stopCapture_abortOnStopFailure(s, devStopOk) ==
  IF ~s.isCapturing_ THEN s
  ELSE IF ~devStopOk THEN [CameraStop(s) EXCEPT !.ev.devStop = "fail"]
  ELSE teardown(s, devStopOk)

stopCapture(s, devStopOk) ==
  IF ~s.isCapturing_
  THEN s
  ELSE teardown(s, devStopOk)

(* ------------------------- MainWindow::startCapture -------------------- *)
\* Where a start can be made to fail after allocation succeeded.
Faults(n) ==
  {[at |-> "none", k |-> 0], [at |-> "start", k |-> 0]}
    \cup {[at |-> a, k |-> k] : a \in {"createRequest", "addBuffer", "queueRequest"},
                                 k \in 1..n}

DefaultStartInput ==
  [validation |-> "Valid", configureOk |-> TRUE, setFormatOk |-> TRUE,
   nbufs |-> 0, fault |-> [at |-> "none", k |-> 0]]

\* The results of the collaborator calls made by one startCapture().  A call
\* that is not reached has one fixed value; nbufs = 0 is a failed allocate().
\* An adjusted configuration only adds a line of output (lines 226-229), so
\* it is paired with one result of the later calls.
StartInputs(s) ==
  {[DefaultStartInput EXCEPT !.validation = "Invalid"],
   [DefaultStartInput EXCEPT !.validation = "Adjusted"],
   [DefaultStartInput EXCEPT !.configureOk = FALSE],
   [DefaultStartInput EXCEPT !.setFormatOk = FALSE],
   DefaultStartInput}
    \cup UNION {
           {[validation |-> "Valid", configureOk |-> TRUE, setFormatOk |-> TRUE,
             nbufs |-> n, fault |-> f] : f \in Faults(n)} :
           n \in {x \in 1..MaxBuffers : x <= Cardinality(FreeFds(s))}}

\* the error: label, lines 302-313; the requests this start queued are the
\* last ev.queuedNow of the device queue
startError(s, ret) ==
  LET q == s.queued[s.camera_]
      first == Len(q) - s.ev.queuedNow
      s1 == [s EXCEPT !.queued[s.camera_] =
                         [k \in 1..Len(q) |->
                            IF k > first THEN [q[k] EXCEPT !.deleted = TRUE] ELSE q[k]]]
  IN Ret(UnmapAll(s1), ret)

startCapture(s, i) ==
  LET s1 == [s EXCEPT !.config_ = TRUE]
  IN
  IF i.validation = "Invalid" THEN Ret(s1, "EINVAL")
  ELSE IF ~i.configureOk THEN Ret(s1, "configure")
  ELSE IF ~i.setFormatOk THEN Ret(s1, "setFormat")
  ELSE
    LET s2 == [s1 EXCEPT !.allocator_ = [st |-> "live", bufs |-> {}]]
    IN
    IF i.nbufs = 0 THEN Ret(s2, "allocate")
    ELSE
      LET bufs == Lowest(FreeFds(s), i.nbufs)
          n == Cardinality(bufs)
          order == SortedSeq(bufs)
          s3 == [s2 EXCEPT !.allocator_.bufs = bufs,
                           !.openFds = @ \cup bufs]
          loopFail == i.fault.at \in {"createRequest", "addBuffer"}
          done == IF loopFail THEN i.fault.k - 1 ELSE n
          requests == [k \in 1..done |-> [buf |-> order[k], deleted |-> FALSE]]
          mapped == {order[k] : k \in 1..done}
          table == [fd \in (DOMAIN s.mappedBuffers_) \cup mapped |->
                      IF fd \in mapped THEN "mem" ELSE s.mappedBuffers_[fd]]
          s4 == [s3 EXCEPT !.mappedBuffers_ = table]
      IN
      IF loopFail
      THEN startError(s4, IF i.fault.at = "createRequest" THEN "ENOMEM" ELSE "addBuffer")
      ELSE
        LET s5 == [s4 EXCEPT !.titleTimer_ = TRUE,
                             !.framesCaptured_ = 0,
                             !.lastBufferTime_ = 0,
                             !.hist = NoHist]
        IN
        IF i.fault.at = "start" THEN startError(s5, "start")
        ELSE
          LET nq == IF i.fault.at = "queueRequest" THEN i.fault.k - 1 ELSE n
              s6 == CameraStart(s5)
              s7 == [s6 EXCEPT !.queued[s.camera_] = @ \o SubSeq(requests, 1, nq),
                               !.ev.queuedNow = nq,
                               !.ev.capAtQueue = s.isCapturing_]
          IN
          IF i.fault.at = "queueRequest"
          THEN startError(s7, "queueRequest")
          ELSE Ret([s7 EXCEPT !.isCapturing_ = TRUE], "ok")

(* ------------------------- MainWindow::display ------------------------- *)
\* display() without the plane-count test of lines 384-385
display_anyPlanes(s, fd, planes) ==
  LET table == IF fd \in DOMAIN s.mappedBuffers_
               THEN s.mappedBuffers_
               ELSE Put(s.mappedBuffers_, fd, "null")
  IN [s EXCEPT !.mappedBuffers_ = table,
               !.ev.displayed = table[fd],
               !.ev.displayRet = "ok"]

display(s, fd, planes) ==
  IF planes # 1
  THEN [s EXCEPT !.ev.displayRet = "EINVAL"]
  ELSE
    \* std::map::operator[] inserts a (nullptr, 0) entry for a missing key
    LET table == IF fd \in DOMAIN s.mappedBuffers_
                 THEN s.mappedBuffers_
                 ELSE Put(s.mappedBuffers_, fd, "null")
    IN [s EXCEPT !.mappedBuffers_ = table,
                 !.ev.displayed = table[fd],
                 !.ev.displayRet = "ok"]

(* ------------------------- MainWindow::requestComplete ----------------- *)
\* lines 354-355; the rate is kept as the whole number of frames per second
FrameRate(lastTime, timestamp) ==
  IF lastTime # 0 /\ timestamp - lastTime # 0
  THEN 1000000000 \div (timestamp - lastTime)
  ELSE 0

\* lines 347-379 returning after display(), without lines 366-379
completeFrame_noResubmit(s, i) ==
    LET s1 == [s EXCEPT !.framesCaptured_ = @ + 1,
                        !.hist.ok = @ + 1,
                        !.ev.fps = FrameRate(s.lastBufferTime_, i.ts),
                        !.lastBufferTime_ = i.ts]
    IN display(s1, i.buf, i.planes)

\* lines 347-379 queueing the new request twice
completeFrame_queueTwice(s, i) ==
    LET s1 == [s EXCEPT !.framesCaptured_ = @ + 1,
                        !.hist.ok = @ + 1,
                        !.ev.fps = FrameRate(s.lastBufferTime_, i.ts),
                        !.lastBufferTime_ = i.ts]
        s2 == display(s1, i.buf, i.planes)
        request == [buf |-> i.buf, deleted |-> FALSE]
    IN CameraQueue(CameraQueue([s2 EXCEPT !.ev.created = 1], request), request)

\* lines 347-379; i.buf and i.planes are what the handler reads through the
\* request pointer.
completeFrame(s, i) ==
    LET s1 == [s EXCEPT !.framesCaptured_ = @ + 1,
                        !.hist.ok = @ + 1,
                        !.ev.fps = FrameRate(s.lastBufferTime_, i.ts),
                        !.lastBufferTime_ = i.ts]
        s2 == display(s1, i.buf, i.planes)
    IN
    IF ~i.createOk
    THEN \* lines 367-370: the only message of the resubmission path
         [s2 EXCEPT !.hist.failed = TRUE, !.hist.resub = 0, !.ev.reported = TRUE]
    ELSE
      LET s3 == [s2 EXCEPT !.ev.created = 1]
          request == [buf |-> i.buf, deleted |-> FALSE]
      IN IF i.queueOk
         THEN [CameraQueue(s3, request) EXCEPT
                 !.hist.resub = IF s.hist.failed THEN 0 ELSE @ + 1]
         ELSE [s3 EXCEPT !.hist.failed = TRUE, !.hist.resub = 0]

\* requestComplete() without the RequestCancelled test of lines 344-345
requestComplete_noCancelCheck(s, i) == completeFrame(s, i)

\* requestComplete() returning a cancelled request to the device
requestComplete_resubmitCancelled(s, i) ==
  IF i.status = "cancelled"
  THEN [CameraQueue([s EXCEPT !.ev.created = 1], [buf |-> i.buf, deleted |-> FALSE])
          EXCEPT !.hist.resub = @ + 1]
  ELSE completeFrame(s, i)

requestComplete(s, i) ==
  IF i.status = "cancelled"
  THEN s
  ELSE completeFrame(s, i)

(* ------------------------- MainWindow::openCamera ---------------------- *)
\* sel is NoName when the camera name is empty, else what cm->get(cameraName)
\* returns: a camera, or NoCamera when the manager has none of that name.
\* openCamera() without the camera_.reset() of line 186
openCamera_keepBusyCamera(s, sel) ==
  IF sel = NoName THEN Ret(s, "EINVAL")
  ELSE IF sel = NoCamera THEN Ret([s EXCEPT !.camera_ = NoCamera], "ENODEV")
  ELSE IF s.acquired[sel] # "free" THEN Ret([s EXCEPT !.camera_ = sel], "EBUSY")
  ELSE Ret([s EXCEPT !.camera_ = sel,
                     !.acquired[sel] = "us",
                     !.subscribers[sel] = @ + 1], "ok")

openCamera(s, sel) ==
  IF sel = NoName THEN Ret(s, "EINVAL")
  ELSE IF sel = NoCamera THEN Ret([s EXCEPT !.camera_ = NoCamera], "ENODEV")
  ELSE IF s.acquired[sel] # "free" THEN Ret([s EXCEPT !.camera_ = NoCamera], "EBUSY")
  ELSE Ret([s EXCEPT !.camera_ = sel,
                     !.acquired[sel] = "us",
                     !.subscribers[sel] = @ + 1], "ok")

(* ------------------------- MainWindow::setCamera ----------------------- *)
\* lines 125-138 without the disconnect of line 136
switchTo_noDisconnect(s, cam, devStopOk) ==
  LET s1 == [s EXCEPT !.acquired[cam] = "us"]
      s2 == stopCapture(s1, devStopOk)
      s3 == CameraRelease(s2)
      s5 == [s3 EXCEPT !.camera_ = cam]
  IN [s5 EXCEPT !.subscribers[cam] = @ + 1]

\* lines 125-138: the state in which setCamera() calls startCapture()
switchTo(s, cam, devStopOk) ==
  LET s1 == [s EXCEPT !.acquired[cam] = "us"]
      s2 == stopCapture(s1, devStopOk)
      s3 == CameraRelease(s2)
      s4 == [s3 EXCEPT !.subscribers[s.camera_] = 0]
      s5 == [s4 EXCEPT !.camera_ = cam]
  IN [s5 EXCEPT !.subscribers[cam] = @ + 1]

\* setCamera() stopping the capture before it tries to acquire the camera
setCamera_stopFirst(s, cam, devStopOk, i) ==
  IF s.acquired[cam] # "free"
  THEN Ret(stopCapture(s, devStopOk), "EBUSY")
  ELSE LET r == startCapture(switchTo(s, cam, devStopOk), i)
       IN Ret([r.s EXCEPT !.ev.startRet = r.ret], "ok")

setCamera(s, cam, devStopOk, i) ==
  IF s.acquired[cam] # "free"
  THEN Ret(s, "EBUSY")
  ELSE LET r == startCapture(switchTo(s, cam, devStopOk), i)
       IN Ret([r.s EXCEPT !.ev.startRet = r.ret], "ok")

(* ------------------------- MainWindow::~MainWindow --------------------- *)
destructor(s, devStopOk) ==
  IF s.camera_ = NoCamera
  THEN s
  ELSE [CameraRelease(stopCapture(s, devStopOk)) EXCEPT !.camera_ = NoCamera]

(* ------------------------- MainWindow::MainWindow ---------------------- *)
\* lines 43-49: openCamera(), then startCapture(), then quit() on an error
MainWindow(s, sel, i) ==
  LET o == openCamera(s, sel)
  IN IF o.ret = "ok" THEN startCapture(o.s, i) ELSE o

(* ------------------------------ actions -------------------------------- *)
\* Before the constructor body: the member initialisers of line 29.  Another
\* process may hold a camera (the last one: the cameras differ only in their
\* plane count) for as long as the window exists.  The frame statistics are
\* not initialised there, but startCapture() sets them before anything reads
\* them.
Init ==
  /\ pc = "ctor"
  /\ camera_ = NoCamera
  /\ allocator_ = NullAllocator
  /\ isCapturing_ = FALSE
  /\ mappedBuffers_ = EmptyTable
  /\ config_ = FALSE
  /\ titleTimer_ = FALSE
  /\ framesCaptured_ = 0
  /\ lastBufferTime_ = 0
  /\ acquired \in {a \in [Cameras -> {"free", "other"}] :
                      \A c \in Cameras : a[c] = "other" => c = NumCameras}
  /\ streaming = [c \in Cameras |-> FALSE]
  /\ queued = [c \in Cameras |-> <<>>]
  /\ subscribers = [c \in Cameras |-> 0]
  /\ openFds = {}
  /\ hist = NoHist
  /\ last = NoLast

\* The constructor.
Construct ==
  /\ pc = "ctor"
  /\ \E sel \in {NoName, NoCamera} \cup Cameras :
       \E i \in (IF openCamera(Cur, sel).ret = "ok"
                 THEN StartInputs(openCamera(Cur, sel).s)
                 ELSE {DefaultStartInput}) :
         LET r == MainWindow(Cur, sel, i)
         IN /\ Install(r.s)
            /\ pc' = IF r.ret = "ok" THEN "running" ELSE "quitting"
            /\ last' = [NoLast EXCEPT !.op = "MainWindow", !.ret = r.ret, !.ev = r.s.ev,
                                      !.cam = sel]

\* Toolbar "start" (line 84).
Start ==
  /\ pc = "running"
  /\ \E i \in StartInputs(Cur) :
       LET r == startCapture(Cur, i)
       IN /\ Install(r.s)
          /\ last' = [NoLast EXCEPT !.op = "startCapture", !.ret = r.ret, !.ev = r.s.ev,
                                    !.wasCapturing = isCapturing_, !.cam = camera_]
  /\ UNCHANGED pc

\* Toolbar "stop" (line 90).
Stop ==
  /\ pc = "running"
  /\ \E devStopOk \in (IF isCapturing_ THEN BOOLEAN ELSE {TRUE}) :
       LET s == stopCapture(Cur, devStopOk)
       IN /\ Install(s)
          /\ last' = [NoLast EXCEPT !.op = "stopCapture", !.ev = s.ev,
                                    !.wasCapturing = isCapturing_,
                                    !.afterStop = (last.op = "stopCapture"),
                                    !.cam = camera_]
  /\ UNCHANGED pc

\* The results of the collaborator calls made by the startCapture() of line
\* 140: every allocation that succeeds, and every failure point with one
\* buffer allocated.  Failures with more buffers are those of the toolbar
\* start, which reaches the same session states after a switch whose start
\* failed early.
SwitchInputs(s) == {i \in StartInputs(s) : i.fault.at # "none" => i.nbufs <= 1}

\* Camera menu entry (line 80).  A failing camera_->stop() inside the switch
\* only adds a line of output (lines 321-323), so it is paired with one result
\* of the calls that follow it.
Switch ==
  /\ pc = "running"
  /\ \E cam \in Cameras :
       \E devStopOk \in (IF isCapturing_ /\ acquired[cam] = "free" THEN BOOLEAN ELSE {TRUE}) :
         \E i \in (IF acquired[cam] = "free" /\ devStopOk
                   THEN SwitchInputs(switchTo(Cur, cam, devStopOk))
                   ELSE {DefaultStartInput}) :
           LET r == setCamera(Cur, cam, devStopOk, i)
           IN /\ Install(r.s)
              /\ last' = [NoLast EXCEPT !.op = "setCamera", !.ret = r.ret, !.ev = r.s.ev,
                                        !.wasCapturing = isCapturing_, !.cam = cam]
  /\ UNCHANGED pc

\* What the handler reads through the pointer of the completed request.  A
\* request that start's unwind deleted is read through a dangling pointer:
\* the status it shows is arbitrary, and so is the one an intact request
\* shows, since the device may cancel any request.  The buffer read is the
\* one bound at creation; a read that faults ends the program and adds no
\* state.  The timestamps of the frames of a session increase strictly, so a
\* session counts at most MaxTimestamp + 1 frames.
CompletionInputs(c, req) ==
  {[status |-> "cancelled", ts |-> lastBufferTime_, createOk |-> TRUE, queueOk |-> TRUE,
    buf |-> req.buf, planes |-> PlanesOf(c)]}
    \cup {[status |-> "complete", ts |-> ts, createOk |-> x[1], queueOk |-> x[2],
           buf |-> req.buf, planes |-> PlanesOf(c)] :
            ts \in (IF framesCaptured_ = 0 THEN 0 ELSE lastBufferTime_ + 1)..MaxTimestamp,
            x \in {<<TRUE, TRUE>>, <<TRUE, FALSE>>, <<FALSE, TRUE>>}}

\* The device completes its oldest request and emits requestCompleted.
Complete ==
  /\ pc = "running"
  /\ \E c \in Cameras :
       /\ streaming[c]
       /\ queued[c] # <<>>
       /\ LET req == Head(queued[c])
              s0 == [Cur EXCEPT !.queued[c] = Tail(@)]
          IN \E i \in CompletionInputs(c, req) :
               /\ LET s == IF subscribers[c] > 0 THEN requestComplete(s0, i) ELSE s0
                  IN /\ Install(s)
                     /\ last' = [NoLast EXCEPT !.op = "requestComplete", !.ev = s.ev,
                                               !.status = i.status, !.calls = subscribers[c],
                                               !.deleted = req.deleted, !.cam = c,
                                               !.wasCapturing = isCapturing_]
  /\ UNCHANGED pc

\* The application leaves its event loop and destroys the window: after the
\* quit() the constructor posted, or after toolbar "Quit" (line 68).
Destroy ==
  /\ pc \in {"running", "quitting"}
  /\ \E devStopOk \in (IF isCapturing_ THEN BOOLEAN ELSE {TRUE}) :
       LET s == destructor(Cur, devStopOk)
       IN /\ Install(s)
          /\ last' = [NoLast EXCEPT !.op = "~MainWindow", !.ev = s.ev,
                                    !.wasCapturing = isCapturing_]
  /\ pc' = "closed"

Next ==
  \/ Construct
  \/ Start
  \/ Stop
  \/ Switch
  \/ Complete
  \/ Destroy

Spec == Init /\ [][Next]_vars

\* A completion that is not cancelled and whose buffer the handler queues
\* again.
CompleteOk ==
  /\ Complete
  /\ last'.status = "complete"
  /\ last'.ev.queuedNow = 1

\* The device goes on completing the requests it holds while it streams, and
\* the event loop delivers every completion to the handler.
LiveSpec == Spec /\ WF_vars(CompleteOk)

TypeOK ==
  /\ pc \in {"ctor", "running", "quitting", "closed"}
  /\ camera_ \in Cameras \cup {NoCamera}
  /\ isCapturing_ \in BOOLEAN
  /\ DOMAIN mappedBuffers_ \subseteq FdSet
  /\ framesCaptured_ \in 0..(MaxTimestamp + 1)
  /\ openFds \subseteq FdSet
  /\ \A c \in Cameras : Len(queued[c]) <= MaxFd

(* ------------------------------ claims --------------------------------- *)
\* The handler that ran last was a startCapture() (called from the toolbar or
\* from the constructor) and this is what it returned.
StartReturned == IF last.op \in {"startCapture", "MainWindow"} /\ camera_ # NoCamera
                 THEN last.ret ELSE "none"

\* Every variable of the session and of the devices.
sessionVars == <<pc, camera_, allocator_, isCapturing_, mappedBuffers_, config_,
                 titleTimer_, framesCaptured_, lastBufferTime_,
                 acquired, streaming, subscribers, openFds, hist>>

\* C1: once start() has returned an error from one of its failure points
\* (allocation, request creation, binding, device start, queueing), the
\* Mapped-Buffer Table is empty and the capturing flag is false.
C1_UnwindComplete ==
  StartReturned \in {"allocate", "ENOMEM", "addBuffer", "start", "queueRequest"}
    => (DOMAIN mappedBuffers_ = {} /\ ~isCapturing_)

\* C2: after start() has returned StartError or QueueError no request it
\* created is still queued at the device and the device is not streaming; and
\* the completion handler never displays or resubmits such a request.
C2_NoPartialSession ==
  /\ StartReturned \in {"start", "queueRequest"}
       => /\ ~streaming[camera_]
          /\ \A k \in 1..Len(queued[camera_]) : ~queued[camera_][k].deleted
  /\ (last.op = "requestComplete" /\ last.deleted)
       => (last.ev.displayed = "none" /\ last.ev.created = 0)

\* C3: when start() returns success it has queued as many requests as the
\* allocator produced buffers, the table has exactly one entry per descriptor
\* of those buffers, and the capturing flag was false while it queued them.
C3_SuccessfulStart ==
  StartReturned = "ok"
    => /\ last.ev.queuedNow = Cardinality(allocator_.bufs)
       /\ DOMAIN mappedBuffers_ = allocator_.bufs
       /\ ~last.ev.capAtQueue

\* C4: a stop() that directly follows a stop() changes nothing of the session
\* or of the devices, unmaps nothing and releases nothing.
C4_StopIdempotent ==
  [][(last.op = "stopCapture" /\ last'.op = "stopCapture")
       => (UNCHANGED sessionVars /\ UNCHANGED queued /\ last'.ev = NoEv)]_vars

C4_Witness ==
  last.op = "stopCapture" /\ last.afterStop /\ allocator_.st = "deleted"

\* C5: when stop() has run on a capturing session the table is empty, the
\* allocator is released, the configuration cleared, the timer stopped and the
\* capturing flag false, whether or not the device's stop call failed.
C5_StopTearsDown ==
  (last.op = "stopCapture" /\ last.wasCapturing)
    => /\ DOMAIN mappedBuffers_ = {}
       /\ allocator_.st = "deleted"
       /\ last.ev.released = 1
       /\ ~config_
       /\ ~titleTimer_
       /\ ~isCapturing_

C5_Witness ==
  /\ last.op = "stopCapture"
  /\ last.wasCapturing
  /\ last.ev.devStop = "fail"
  /\ last.ev.unmapped > 0

\* C6: as long as no request creation or queueing has failed since the
\* session's statistics were reset, the number of resubmissions and the frame
\* counter both equal the number of non-cancelled completions handled;
\* cancelled completions add to neither.
C6_ResubmitCount ==
  ~hist.failed => (hist.resub = hist.ok /\ framesCaptured_ = hist.ok)

\* One buffer in play, two frames completed and resubmitted, then a cancelled
\* completion.
C6_Witness ==
  /\ Cardinality(openFds) = 1
  /\ isCapturing_
  /\ ~hist.failed
  /\ hist.ok = 2
  /\ hist.resub = 2
  /\ last.op = "requestComplete"
  /\ last.status = "cancelled"

\* C7: the completion handler called with a cancelled request changes
\* neither the session nor the devices: no display call, no new request, and
\* the device queue only loses the completed request.
C7_CancelledIsNoOp ==
  [][(last'.op = "requestComplete" /\ last'.status = "cancelled")
       => /\ UNCHANGED sessionVars
          /\ queued' = [queued EXCEPT ![last'.cam] = Tail(@)]
          /\ last'.ev = NoEv]_vars

C7_Witness ==
  /\ last.op = "requestComplete"
  /\ last.status = "cancelled"
  /\ last.calls = 1
  /\ isCapturing_
  /\ framesCaptured_ > 0

\* C8: after switchCamera(B) issued while capturing has returned success, no
\* other camera is acquired by or subscribed to the session, and camera B is
\* the current camera, started and capturing with its own mappings.
C8_SwitchCaptures ==
  (last.op = "setCamera" /\ last.ret = "ok" /\ last.wasCapturing)
    => /\ camera_ = last.cam
       /\ \A c \in Cameras \ {camera_} :
            acquired[c] # "us" /\ subscribers[c] = 0 /\ queued[c] = <<>>
       /\ isCapturing_
       /\ streaming[camera_]
       /\ allocator_.st = "live"
       /\ DOMAIN mappedBuffers_ = allocator_.bufs

\* C9: a switchCamera that returns Busy leaves the session and the devices
\* as they were, and stops nothing.
C9_BusySwitchIsNoOp ==
  [][(last'.op = "setCamera" /\ last'.ret = "EBUSY")
       => (UNCHANGED sessionVars /\ UNCHANGED queued /\ last'.ev = NoEv)]_vars

C9_Witness ==
  /\ last.op = "setCamera"
  /\ last.ret = "EBUSY"
  /\ isCapturing_
  /\ queued[camera_] # <<>>

\* C10: while the window exists, at most one camera is subscribed to the
\* handler, it is the current camera and it is subscribed once; every
\* completed request reaches the handler exactly once and comes from the
\* current camera.
C10_SingleSubscription ==
  pc # "closed"
    => /\ \A c \in Cameras : subscribers[c] <= 1
       /\ \A c \in Cameras : subscribers[c] = 1 => c = camera_
       /\ last.op = "requestComplete" => (last.calls = 1 /\ last.cam = camera_)

\* A switch has attached the handler to the new camera and started it.
C10_Witness ==
  /\ last.op = "setCamera"
  /\ last.ret = "ok"
  /\ last.ev.startRet = "ok"
  /\ subscribers[camera_] = 1

\* C11: whenever the completion handler runs on a request that start() has
\* not deleted and forwards its buffer to the viewfinder, the buffer's
\* descriptor has a table entry recorded by start() and not yet unmapped: the
\* handler never looks up a descriptor whose mapping an unwind or a stop has
\* removed, so it never adds an entry of its own.
C11_NoFreedMapping ==
  (last.op = "requestComplete" /\ ~last.deleted)
    => last.ev.displayed \in {"none", "mem"}

\* C12: when the handler runs on a non-cancelled completion whose buffer has
\* more than one plane, display() returns -EINVAL, nothing is handed to the
\* viewfinder and the table is not touched, and, unless a request creation
\* or queueing has failed in the session, one new request holding the same
\* buffer is queued behind the requests still in flight.
C12_MultiPlaneResubmitted ==
  [][(/\ last'.op = "requestComplete"
      /\ last'.status = "complete"
      /\ last'.calls = 1
      /\ PlanesOf(last'.cam) > 1)
       => /\ last'.ev.displayRet = "EINVAL"
          /\ last'.ev.displayed = "none"
          /\ mappedBuffers_' = mappedBuffers_
          /\ ~hist'.failed
               => /\ last'.ev.created = 1
                  /\ queued'[last'.cam] =
                       Append(Tail(queued[last'.cam]),
                              [buf |-> Head(queued[last'.cam]).buf, deleted |-> FALSE])]_vars

\* A two-plane buffer has completed and is queued again, another request
\* being in flight.
C12_Witness ==
  /\ last.op = "requestComplete"
  /\ last.status = "complete"
  /\ PlanesOf(last.cam) > 1
  /\ last.ev.displayRet = "EINVAL"
  /\ last.ev.queuedNow = 1
  /\ Len(queued[last.cam]) = 2

\* C13: the rate the handler computes for the first frame after the
\* statistics reset of a start() is 0; for every later frame, with timestamp
\* T2 after a frame with timestamp T1 < T2 (T1 = 0 included), it is
\* 1e9/(T2-T1); and a start() that succeeds leaves the stored timestamp at 0.
C13_FrameRate ==
  [][/\ (last'.op = "requestComplete" /\ last'.status = "complete" /\ last'.calls = 1)
          => last'.ev.fps = IF framesCaptured_ = 0
                            THEN 0
                            ELSE 1000000000 \div (lastBufferTime_' - lastBufferTime_)
     /\ (last'.op \in {"startCapture", "MainWindow"} /\ last'.ret = "ok")
          => lastBufferTime_' = 0]_vars

\* C14: when request creation or queueing fails in the completion handler,
\* the failure is reported, the capturing flag and the Mapped-Buffer Table
\* stay as they were, the other requests stay queued at the device and the
\* completed buffer is not queued again.
C14_ResubmitFailureNotFatal ==
  [][(/\ last'.op = "requestComplete"
      /\ last'.status = "complete"
      /\ last'.calls = 1
      /\ last'.ev.queuedNow = 0)
       => /\ last'.ev.reported
          /\ isCapturing_' = isCapturing_
          /\ DOMAIN mappedBuffers_' = DOMAIN mappedBuffers_
          /\ queued'[last'.cam] = Tail(queued[last'.cam])]_vars

\* The constructor's openCamera() failed: no name was given, the manager has
\* no camera of that name, or another process holds the camera.
OpenFailed ==
  /\ last.op = "MainWindow"
  /\ \/ last.cam \notin Cameras
     \/ acquired[last.cam] = "other"

\* C15: openCamera() returns -EINVAL when no camera name is given, -ENODEV
\* when the manager has no camera of that name and -EBUSY when the camera is
\* held elsewhere; after each of them camera_ is null, the session has
\* acquired no camera and is subscribed to none, startCapture() has not run
\* (no configuration, no allocator, no timer, nothing queued) and the
\* capturing flag is false.
C15_OpenFailures ==
  OpenFailed
    => /\ last.ret = (IF last.cam = NoName THEN "EINVAL"
                      ELSE IF last.cam = NoCamera THEN "ENODEV" ELSE "EBUSY")
       /\ camera_ = NoCamera
       /\ \A c \in Cameras :
            acquired[c] # "us" /\ subscribers[c] = 0 /\ queued[c] = <<>> /\ ~streaming[c]
       /\ last.ev = NoEv
       /\ ~config_
       /\ allocator_ = NullAllocator
       /\ ~titleTimer_
       /\ ~isCapturing_
       /\ pc = "quitting"

\* The camera named on the command line is held by another process.
C15_Witness ==
  /\ OpenFailed
  /\ last.cam \in Cameras
  /\ last.ret = "EBUSY"

\* The requests in flight: camera and position in its device queue.
InFlight == {x \in Cameras \X (1..MaxFd + 1) : x[2] <= Len(queued[x[1]])}

\* No two requests in flight hold the same buffer, every buffer in flight
\* belongs to an allocator that has not been deleted, and there are no more
\* requests in flight than such buffers.
OwnershipInv ==
  /\ \A x, y \in InFlight :
       x # y => queued[x[1]][x[2]].buf # queued[y[1]][y[2]].buf
  /\ \A x \in InFlight : queued[x[1]][x[2]].buf \in openFds
  /\ Cardinality(InFlight) <= Cardinality(openFds)

\* display() reads the buffer of the request the device has just completed,
\* and no request still queued holds that buffer.
DisplayOutsideQueue ==
  (last'.op = "requestComplete" /\ last'.ev.displayRet = "ok")
    => LET q == queued[last'.cam]
       IN \A k \in 2..Len(q) : q[k].buf # q[1].buf

\* C16: in every reachable state each frame buffer is held by at most one
\* request queued at the device and the requests in flight are no more than
\* the allocated buffers; the handler displays a buffer only after the device
\* has completed its request and before the buffer is queued again.
C16_BufferOwnership == []OwnershipInv /\ [][DisplayOutsideQueue]_vars

\* Two buffers in flight after one of them was displayed and queued again.
C16_Witness ==
  /\ last.op = "requestComplete"
  /\ last.ev.displayed = "mem"
  /\ last.ev.queuedNow = 1
  /\ Len(queued[last.cam]) = 2
  /\ Cardinality(openFds) = 2

\* C17: a start() that succeeds records one mapping per buffer of its
\* allocator, each under a key the table did not hold; the completion handler
\* leaves the table as it is; every entry of the table is a mapping made by
\* start(), entries leave the table only by being unmapped, and none is left
\* when the window is closed.
C17_MappingLifecycle ==
  [][/\ (last'.op \in {"startCapture", "MainWindow"} /\ last'.ret = "ok")
          => /\ allocator_'.bufs \cap DOMAIN mappedBuffers_ = {}
             /\ DOMAIN mappedBuffers_' = DOMAIN mappedBuffers_ \cup allocator_'.bufs
     /\ last'.op = "requestComplete" => mappedBuffers_' = mappedBuffers_
     /\ \A fd \in DOMAIN mappedBuffers_' : mappedBuffers_'[fd] = "mem"
     /\ last'.ev.unmapped >= Cardinality(DOMAIN mappedBuffers_ \ DOMAIN mappedBuffers_')
     /\ pc' = "closed" => \A fd \in DOMAIN mappedBuffers_' : mappedBuffers_'[fd] # "mem"]_vars

\* C18: the title timer runs only while the session is capturing, and it is
\* not running when stopCapture() has returned, whatever start() preceded it.
C18_TimerFollowsSession ==
  /\ titleTimer_ => isCapturing_
  /\ last.op = "stopCapture" => ~titleTimer_

\* C19: a start() that has returned an error after creating its allocator
\* has released it; the buffers that exist are those of the one allocator
\* allocator_ points to, so no allocator is left behind by a failed or a
\* repeated start(); and one stopCapture() releases at most one allocator.
C19_AllocatorLifecycle ==
  /\ StartReturned \in {"allocate", "ENOMEM", "addBuffer", "start", "queueRequest"}
       => allocator_.st # "live"
  /\ openFds = (IF allocator_.st = "live" THEN allocator_.bufs ELSE {})
  /\ last.ev.released <= 1

\* The device has no later timestamp left for a frame of this session.
Exhausted == framesCaptured_ > 0 /\ lastBufferTime_ = MaxTimestamp

\* The session is capturing with no resubmission failure so far, and the
\* request at the head of the device queue holds the mapped buffer b.
Live(b) ==
  /\ pc = "running"
  /\ isCapturing_
  /\ ~hist.failed
  /\ streaming[camera_]
  /\ queued[camera_] # <<>>
  /\ Head(queued[camera_]).buf = b
  /\ ~Head(queued[camera_]).deleted
  /\ b \in DOMAIN mappedBuffers_
  /\ mappedBuffers_[b] = "mem"
  /\ ~Exhausted

\* The handler has just taken the completion of buffer b and queued b again
\* behind the other requests.
Requeued(b) ==
  /\ last.op = "requestComplete"
  /\ last.status = "complete"
  /\ last.ev.queuedNow = 1
  /\ queued[camera_] # <<>>
  /\ queued[camera_][Len(queued[camera_])].buf = b

\* The session was stopped, switched, restarted or closed, a request was
\* cancelled, or a request creation or queueing failed.
Ended ==
  \/ pc # "running"
  \/ ~isCapturing_
  \/ hist.failed
  \/ last.op = "requestComplete" /\ last.status = "cancelled"
  \/ last.op = "startCapture" /\ last.wasCapturing
  \/ last.op = "setCamera" /\ last.ret = "ok"

====
